---- MODULE Spec2Model ----
(***************************************************************************)
(* CSVFileParser (node-csv): the indexing / reading engine.                *)
(*                                                                         *)
(* Text is a sequence of one-character strings.  The file is a sequence of *)
(* bytes (ASCII only, so a character is a byte and line.length is the      *)
(* byte length of the line).  The engine is the private state of one       *)
(* CSVFileParser instance; every public method is an action; the two       *)
(* asynchronous methods (buildIndex, getLine) are split at their           *)
(* suspension points, so that other calls can be made while they are       *)
(* pending, as JavaScript allows.                                          *)
(***************************************************************************)
EXTENDS Integers, Sequences, FiniteSets, TLC

\* ------------------------------------------------------------------ bounds
\* Lines of a generated file (the header line included).
MaxLines == 3
\* Calls of open, close, rewind and buildIndex the engine accepts in one
\* behaviour (the calls it refuses, getLine, iterator(), next() on the
\* generator and the accessors are not counted).
MaxCalls == 1
\* Largest value of buildIndex's max option (-1, the default, is always tried).
MaxMax == 0
\* Largest row number passed to getLine (0 is always tried).
MaxRowArg == 3
\* Accepted calls in a behaviour of the longer sessions (buildIndex and a
\* rewind or a close; a scan cut short by close).
MaxSessionCalls == 2
\* getLine calls outstanding at a time where calls overlap, and the short rows
\* of the files they are made on.
MaxPending == 2
\* The decoder alone is checked on headers of at most MaxNames names and rows of
\* at most MaxCells cells.
MaxNames == 2
MaxCells == 3

\* ------------------------------------------------------------------ text
LF == "\n"
CR == "\r"
COMMA == ","
\* A byte of a freshly allocated (zero-filled) Buffer, decoded as text.
NUL == "NUL"
Null == [t |-> "null", v |-> <<>>]
Str(s) == [t |-> "str", v |-> s]
Arr(a) == [t |-> "arr", v |-> a]

\* The texts a line of a generated file is drawn from.
LineTexts == { <<"a">>, <<"a", COMMA, "b">> }

RECURSIVE JoinLines(_, _, _)
\* The bytes of a file holding `ls`, each line but the last followed by the
\* divisor `div`, the last one too when `trailing`.
JoinLines(ls, div, trailing) ==
    IF ls = <<>> THEN <<>>
    ELSE IF Len(ls) = 1 THEN Head(ls) \o (IF trailing THEN div ELSE <<>>)
    ELSE Head(ls) \o div \o JoinLines(Tail(ls), div, trailing)

RECURSIVE SeqsUpTo(_, _)
\* Sequences over S of length at most n.
SeqsUpTo(S, n) ==
    IF n = 0 THEN { <<>> }
    ELSE LET shorter == SeqsUpTo(S, n - 1)
         IN  shorter \cup { Append(s, x) : s \in shorter, x \in S }

\* The files of at most MaxLines lines written with the line divisor `div`,
\* with a divisor after the last line or without one.
FilesWith(div, trailing) ==
    { JoinLines(ls, div, trailing) : ls \in SeqsUpTo(LineTexts, MaxLines) }

RECURSIVE ReadLinesFrom(_, _, _)
\* readline (crlfDelay: Infinity): the lines of a byte stream; a line ends at
\* LF, CR LF or a lone CR, and a last line without an ending is a line when it
\* is not empty.
ReadLinesFrom(s, cur, acc) ==
    IF s = <<>> THEN (IF cur # <<>> THEN Append(acc, cur) ELSE acc)
    ELSE IF Head(s) = LF THEN ReadLinesFrom(Tail(s), <<>>, Append(acc, cur))
    ELSE IF Head(s) = CR
         THEN IF Len(s) > 1 /\ s[2] = LF
              THEN ReadLinesFrom(Tail(Tail(s)), <<>>, Append(acc, cur))
              ELSE ReadLinesFrom(Tail(s), <<>>, Append(acc, cur))
    ELSE ReadLinesFrom(Tail(s), Append(cur, Head(s)), acc)

ReadLines(bytes) == ReadLinesFrom(bytes, <<>>, <<>>)

RECURSIVE SplitFrom(_, _, _)
SplitFrom(s, cur, acc) ==
    IF s = <<>> THEN Append(acc, cur)
    ELSE IF Head(s) = COMMA THEN SplitFrom(Tail(s), <<>>, Append(acc, cur))
    ELSE SplitFrom(Tail(s), Append(cur, Head(s)), acc)

\* #splitCSVLine: line.split(','); the empty line gives one empty cell.
splitCSVLine(line) == SplitFrom(line, <<>>, <<>>)

IsSpace(c) == c \in { " ", LF, CR }

RECURSIVE TrimStart(_)
TrimStart(s) == IF s # <<>> /\ IsSpace(Head(s)) THEN TrimStart(Tail(s)) ELSE s

RECURSIVE TrimEnd(_)
TrimEnd(s) ==
    IF s # <<>> /\ IsSpace(s[Len(s)]) THEN TrimEnd(SubSeq(s, 1, Len(s) - 1)) ELSE s

\* String.prototype.trim
Trim(s) == TrimEnd(TrimStart(s))

\* ------------------------------------------------------------------ row decoder
\* new CSVObjectLine({ index, line, cells }); fields._unnamed is `unnamed`.
CSVObjectLine(index, line, cells) ==
    [ index |-> index, line |-> line, cells |-> cells,
      hasMissingCells |-> FALSE, hasExcessCells |-> FALSE,
      fields |-> [c \in {} |-> Null], unnamed |-> <<>> ]

\* cells[i] || null  (i is 0-based): a missing or an empty cell is null.
CellOrNull(cells, i) ==
    IF i + 1 <= Len(cells) /\ cells[i + 1] # <<>> THEN Str(cells[i + 1]) ELSE Null

\* The three assignments of the decoder's loop body to result.fields[col].
AssignField(fields, col, cell) ==
    IF col \in DOMAIN fields /\ fields[col].t = "str"
    THEN [fields EXCEPT ![col] = Arr(<<fields[col], cell>>)]
    ELSE IF col \in DOMAIN fields /\ fields[col].t = "arr"
    THEN [fields EXCEPT ![col] = Arr(Append(fields[col].v, cell))]
    ELSE [c \in DOMAIN fields \cup {col} |-> IF c = col THEN cell ELSE fields[c]]

RECURSIVE ExcessLoop(_, _, _, _)
\* The loop of the branch cells.length > header.length, from i (0-based).
ExcessLoop(i, header, cells, result) ==
    IF i >= Len(cells) THEN result
    ELSE LET cell == CellOrNull(cells, i)
             \* !col: no header name at i, or an empty one
             noCol == i + 1 > Len(header) \/ header[i + 1] = <<>>
         IN  IF noCol
             THEN ExcessLoop(i + 1, header, cells,
                             [result EXCEPT !.unnamed = Append(@, cell)])
             ELSE ExcessLoop(i + 1, header, cells,
                             [result EXCEPT !.fields = AssignField(@, header[i + 1], cell)])

RECURSIVE NormalLoop(_, _, _, _)
\* The loop of the other branch, over the header's positions.
NormalLoop(i, header, cells, result) ==
    IF i >= Len(header) THEN result
    ELSE NormalLoop(i + 1, header, cells,
                    [result EXCEPT !.fields = AssignField(@, header[i + 1], CellOrNull(cells, i))])

\* The header option of the decoder, and the engine's #header: absent (null),
\* a text still to be split, or a sequence of names.
NoHeader == [t |-> "none", v |-> <<>>]
HText(s) == [t |-> "text", v |-> s]
HNames(n) == [t |-> "names", v |-> n]

\* The `this` of a call: the engine (with its #header), or undefined.
Bound(h) == [bound |-> TRUE, header |-> h]
Unbound == [bound |-> FALSE, header |-> NoHeader]

\* A call's outcome that is not a value.
Failure(kind) == [failed |-> kind]
IsFailure(x) == DOMAIN x = {"failed"}

\* #buildLineObject(line, index, { header }) called with `self` as this.
buildLineObject(self, line, index, header) ==
    IF ~self.bound
    \* every path evaluates this.#splitCSVLine: a TypeError on undefined
    THEN Failure("TypeError")
    ELSE LET given == IF header.t = "text" THEN HNames(splitCSVLine(header.v)) ELSE header
             hdr == IF given.t = "none" THEN self.header ELSE given
             cells == splitCSVLine(line)
             result == CSVObjectLine(index, line, cells)
         IN  IF hdr.t = "none" THEN Failure("TypeError")
             ELSE IF Len(cells) > Len(hdr.v)
             THEN ExcessLoop(0, hdr.v, cells, [result EXCEPT !.hasExcessCells = TRUE])
             ELSE NormalLoop(0, hdr.v, cells, result)

\* ------------------------------------------------------------------ state
VARIABLES
    file,                \* the bytes of the file named #filename
    is_open,             \* #is_open
    is_indexed,          \* #is_indexed
    is_iterator_active,  \* #is_iterator_active
    header,              \* #header: NoHeader (null) or HNames(names)
    lines,               \* #lines
    columns,             \* #columns
    size,                \* #size
    index_pool,          \* #index_pool: <<offset, length>> entries; JS index i is [i + 1]
    reading_buffer,      \* #reading_buffer: null or a Buffer's bytes
    reading_handle,      \* #reading_handle: "null" or "fd"
    line_divisor,        \* #line_divisor
    stream,              \* #input_stream and #iterator_stream: the open line stream
    gen,                 \* #iterator_object: the async generator of iterator()
    bld,                 \* the pending buildIndex call, suspended in its scan
    reads,               \* the pending getLine calls, each in #readAtIndex
    result,              \* the outcome of the latest call
    ncalls,              \* calls of open, close, rewind, buildIndex still accepted
    pass,                \* what the iterator has produced since the last rewind
    prevPass,            \* the pass the last rewind ended, if it was a whole one
    lastScan             \* how the latest completed buildIndex ran

vars ==
    << file, is_open, is_indexed, is_iterator_active, header, lines, columns, size,
       index_pool, reading_buffer, reading_handle, line_divisor, stream, gen, bld,
       reads, result, ncalls, pass, prevPass, lastScan >>

\* The private fields of the engine that no stream or pending call is part of.
indexState == << is_indexed, header, lines, columns, size, index_pool >>

\* The lines readline delivers from the file.
FileLines == ReadLines(file)

NoStream == [open |-> FALSE, pos |-> 0, ended |-> TRUE]
\* fs.createReadStream + readline.createInterface: a stream at the file's start.
NewStream == [open |-> TRUE, pos |-> 0, ended |-> FALSE]

NoBuffer == [alloc |-> FALSE, bytes |-> <<>>]
\* Buffer.alloc(n): n zero bytes.
BufferAlloc(n) == [alloc |-> TRUE, bytes |-> [i \in 1..n |-> NUL]]

NoGen == [exists |-> FALSE, live |-> FALSE, index |-> 0, header |-> NoHeader,
          state |-> "none"]
NoBld == [active |-> FALSE, live |-> FALSE, max |-> -1, maxLength |-> 0,
          broke |-> FALSE, fresh |-> FALSE, before |-> <<>>]
\* A pass of the iterator: whether iterator() was called in it, whether that
\* call made the generator, whether the stream was then at the file's start with
\* no scan pending, the records yielded, how the pass ended ("done", "threw"),
\* and whether the generator was then still the only reader of the open stream.
NoPass == [iter |-> FALSE, created |-> FALSE, fresh |-> FALSE, whole |-> FALSE,
           yielded |-> <<>>, ending |-> "none"]
\* The iterator made by this pass's iterator() call, on a stream at the start
\* of the file, has been consumed to its end as the only reader of the stream.
PassOver(p) == p.created /\ p.fresh /\ p.whole /\ p.ending # "none"
\* The latest completed buildIndex: its max, whether it scanned alone and from
\* the file's start into an empty Index Table, and whether since its end no
\* open, close, rewind or buildIndex has been accepted.
NoScan == [done |-> FALSE, max |-> -1, clean |-> FALSE, quiet |-> FALSE]

\* lastScan after a call of open, close, rewind or buildIndex that is accepted.
Disturbed == [lastScan EXCEPT !.quiet = FALSE]

\* The outcome of a call.  The engine throws plain Errors; `kind` names the
\* check that threw: "StateError" for the checks of #is_open, #is_indexed and
\* the empty #index_pool, "RangeError" for getLine's check of its index, and
\* "TypeError" for the errors the runtime raises itself.
Outcome(op, arg, kind, value) == [op |-> op, arg |-> arg, kind |-> kind, value |-> value]

\* The constructor's initial #line_divisor.
InitialLineDivisor == <<LF>>

\* tempbuffer.toString('utf-8').includes('\r\n')
IncludesCRLF(bytes) ==
    \E i \in 1..(Len(bytes) - 1) : bytes[i] = CR /\ bytes[i + 1] = LF

\* Size of the chunk open() sniffs the divisor from.
SniffLength == 8192

\* open()'s choice of #line_divisor: sniffed only while it is falsy ('').
DivisorAfterOpen(divisor, bytes) ==
    IF divisor = <<>>
    THEN IF IncludesCRLF(SubSeq(bytes, 1, IF Len(bytes) < SniffLength THEN Len(bytes) ELSE SniffLength))
         THEN <<CR, LF>> ELSE <<LF>>
    ELSE divisor

\* new CSVFileParser(filename, { open }): the state after construction, on one
\* of `files`, for a behaviour of at most `calls` accepted calls.
InitWith(files, calls) ==
    /\ file \in files
    /\ is_open \in BOOLEAN
    /\ is_indexed = FALSE
    /\ is_iterator_active = FALSE
    /\ header = NoHeader
    /\ lines = 0
    /\ columns = 0
    /\ size = 0
    /\ index_pool = <<>>
    /\ reading_buffer = NoBuffer
    /\ reading_handle = (IF is_open THEN "fd" ELSE "null")
    /\ line_divisor = (IF is_open THEN DivisorAfterOpen(InitialLineDivisor, file)
                                  ELSE InitialLineDivisor)
    /\ stream = (IF is_open THEN NewStream ELSE NoStream)
    /\ gen = NoGen
    /\ bld = NoBld
    /\ reads = <<>>
    /\ result = Outcome("new", "", "ok", "")
    /\ ncalls = calls
    /\ pass = NoPass
    /\ prevPass = NoPass
    /\ lastScan = NoScan

InitOn(files) == InitWith(files, MaxCalls)

\* The engine on a file whose lines, the last one too, end in a newline.
Init == InitOn(FilesWith(<<LF>>, TRUE))

\* The engine accepts a call of open, close, rewind or buildIndex (the model
\* bounds how many it accepts; calls it refuses and the other calls are free).
Accepted == ncalls > 0 /\ ncalls' = ncalls - 1

\* open() without its check of #is_open.
OpenNeverRefused == FALSE

\* Whether open() refuses: the engine is open already.
OpenRefused == is_open

\* Whether close() refuses: the engine is not open.
CloseRefused == ~is_open

\* close() ends the line stream: its readers get no further line.
Detached(reader) == [reader EXCEPT !.live = FALSE]

\* open()
Open ==
    /\ IF OpenRefused
       THEN /\ result' = Outcome("open", "", "StateError", "")
            /\ UNCHANGED << is_open, stream, reading_handle, line_divisor, ncalls,
                            lastScan >>
       ELSE /\ Accepted
            /\ stream' = NewStream
            /\ reading_handle' = "fd"
            /\ is_open' = TRUE
            /\ line_divisor' = DivisorAfterOpen(line_divisor, file)
            /\ lastScan' = Disturbed
            /\ result' = Outcome("open", "", "ok", "")
    /\ UNCHANGED << file, indexState, is_iterator_active, reading_buffer, gen, bld,
                    reads, pass, prevPass >>

\* A close() that also drops the index.
CloseForgetsIndex(preserveFileHandle) ==
    /\ ~CloseRefused
    /\ Accepted
    /\ stream' = NoStream
    /\ gen' = Detached(gen)
    /\ bld' = Detached(bld)
    /\ reading_handle' = (IF preserveFileHandle THEN reading_handle ELSE "null")
    /\ is_open' = FALSE
    /\ is_indexed' = FALSE
    /\ lastScan' = Disturbed
    /\ result' = Outcome("close", preserveFileHandle, "ok", "")
    /\ UNCHANGED << file, header, lines, columns, size, index_pool, is_iterator_active,
                    reading_buffer, line_divisor, reads, pass, prevPass >>

\* close({ preserveFileHandle })
Close(preserveFileHandle) ==
    /\ IF CloseRefused
       THEN /\ result' = Outcome("close", preserveFileHandle, "StateError", "")
            /\ UNCHANGED << is_open, stream, reading_handle, gen, bld, ncalls, lastScan >>
       ELSE /\ Accepted
            /\ stream' = NoStream
            /\ gen' = Detached(gen)
            /\ bld' = Detached(bld)
            /\ reading_handle' = (IF preserveFileHandle THEN reading_handle ELSE "null")
            /\ is_open' = FALSE
            /\ lastScan' = Disturbed
            /\ result' = Outcome("close", preserveFileHandle, "ok", "")
    /\ UNCHANGED << file, indexState, is_iterator_active, reading_buffer, line_divisor,
                    reads, pass, prevPass >>

\* rewind(): close({ preserveFileHandle: true }) and open()
Rewind ==
    /\ IF ~is_open
       THEN /\ result' = Outcome("rewind", "", "StateError", "")
            /\ UNCHANGED << stream, gen, bld, line_divisor, pass, prevPass, ncalls,
                            lastScan >>
       ELSE /\ Accepted
            /\ stream' = NewStream
            /\ gen' = Detached(gen)
            /\ bld' = Detached(bld)
            /\ line_divisor' = DivisorAfterOpen(line_divisor, file)
            /\ prevPass' = (IF PassOver(pass) THEN pass ELSE NoPass)
            /\ pass' = NoPass
            /\ lastScan' = Disturbed
            /\ result' = Outcome("rewind", "", "ok", "")
    /\ UNCHANGED << file, indexState, is_open, is_iterator_active, reading_buffer,
                    reading_handle, reads >>

\* The accessors that need the index.
IndexedAccessors == { "header", "lines", "columns", "size" }
Accessors == IndexedAccessors \cup { "filename", "isOpen", "isIndexed" }

\* The getters gated on a header being known instead of on #is_indexed.
AccessorRefusedUntilHeader(name) == name \in IndexedAccessors /\ header = NoHeader

\* Whether the getter `name` throws (#throwMissingIndexingError).
AccessorRefused(name) == name \in IndexedAccessors /\ ~is_indexed

AccessorValue(name) ==
    CASE name = "header" -> header
      [] name = "lines" -> lines
      [] name = "columns" -> columns
      [] name = "size" -> size
      [] name = "isOpen" -> is_open
      [] name = "isIndexed" -> is_indexed
      [] OTHER -> "file.csv"

\* What reading the getter `name` gives: the error it throws, or its value.
Read(name) ==
    IF AccessorRefused(name)
    THEN [kind |-> "StateError", value |-> ""]
    ELSE [kind |-> "ok", value |-> AccessorValue(name)]

\* get filename, header, lines, columns, size, isOpen, isIndexed: each of the
\* getters is read.
Get ==
    /\ result' = Outcome("get", "", "ok", [name \in Accessors |-> Read(name)])
    /\ UNCHANGED << file, indexState, is_open, is_iterator_active, reading_buffer,
                    reading_handle, line_divisor, stream, gen, bld, reads, ncalls,
                    pass, prevPass, lastScan >>

\* ------------------------------------------------------------------ buildIndex
\* Whether a reader of the line stream gets another line.  A reader of a
\* stream that close() has ended gets none: its loop ends, or never resumes,
\* which is a step the reader does not take.
HasLine(reader) == reader.live /\ ~stream.ended /\ stream.pos < Len(FileLines)

\* The line the stream delivers next.
NextLine == FileLines[stream.pos + 1]

\* The values of buildIndex's max option that are tried.
MaxOptions == -1..MaxMax

\* Whether the scan stops before the line it has just read.
ScanStops(max) == max >= 0 /\ lines >= max

\* The Index Table entry the scan pushes for `line`.
IndexEntry(line) == << size, Len(line) + Len(line_divisor) >>

\* buildIndex({ max }): the state check and the resets before the scan.
BuildIndexCall(max) ==
    /\ IF ~is_open
       THEN /\ result' = Outcome("buildIndex", max, "StateError", "")
            /\ UNCHANGED << lines, size, bld, ncalls, lastScan >>
       \* one scan at a time is followed
       ELSE /\ ~bld.active
            /\ Accepted
            /\ lines' = 0
            /\ size' = 0
            /\ bld' = [active |-> TRUE, live |-> TRUE, max |-> max, maxLength |-> 0,
                       broke |-> FALSE,
                       fresh |-> stream.pos = 0 /\ ~stream.ended /\ index_pool = <<>>,
                       \* the indexed state the call found (kept for the claims)
                       before |-> indexState]
            /\ lastScan' = Disturbed
            /\ result' = Outcome("buildIndex", max, "pending", "")
    /\ UNCHANGED << file, is_open, is_indexed, is_iterator_active, header, columns,
                    index_pool, reading_buffer, reading_handle, line_divisor, stream,
                    gen, reads, pass, prevPass >>

\* One pass of the scan's loop body, on the next line of the stream.
BuildIndexStep ==
    /\ bld.active /\ ~bld.broke /\ HasLine(bld)
    /\ LET line == NextLine
       IN  IF lines = 0
           THEN /\ lines' = lines + 1
                /\ size' = size + Len(line) + Len(line_divisor)
                /\ header' = HNames(splitCSVLine(line))
                /\ columns' = Len(splitCSVLine(line))
                /\ stream' = [stream EXCEPT !.pos = @ + 1]
                /\ UNCHANGED << index_pool, bld >>
           ELSE IF ScanStops(bld.max)
           \* break: the loop returns the stream's iterator
           THEN /\ bld' = [bld EXCEPT !.broke = TRUE]
                /\ stream' = [stream EXCEPT !.pos = @ + 1, !.ended = TRUE]
                /\ UNCHANGED << lines, size, header, columns, index_pool >>
           ELSE /\ index_pool' = Append(index_pool, IndexEntry(line))
                /\ lines' = lines + 1
                /\ size' = size + Len(line) + Len(line_divisor)
                /\ bld' = [bld EXCEPT !.maxLength = IF Len(line) >= @ THEN Len(line) ELSE @]
                /\ stream' = [stream EXCEPT !.pos = @ + 1]
                /\ UNCHANGED << header, columns >>
    /\ UNCHANGED << file, is_open, is_indexed, is_iterator_active, reading_buffer,
                    reading_handle, line_divisor, gen, reads, result, ncalls, pass,
                    prevPass, lastScan >>

\* The size of the buffer buildIndex allocates after a scan whose longest
\* row had `maxLength` characters.
ReadingBufferSize(maxLength) == maxLength

\* A pending read keeps the Buffer it was given when #reading_buffer is replaced.
Unshared(rs) ==
    [k \in DOMAIN rs |->
        IF rs[k].shared
        THEN [rs[k] EXCEPT !.shared = FALSE, !.buf = reading_buffer.bytes]
        ELSE rs[k]]

\* The end of the scan: the buffer, close({ preserveFileHandle: true }), open().
BuildIndexFinish ==
    /\ bld.active /\ (bld.broke \/ ~HasLine(bld))
    /\ reading_buffer' = BufferAlloc(ReadingBufferSize(bld.maxLength))
    /\ reads' = Unshared(reads)
    /\ bld' = NoBld
    /\ IF CloseRefused
       THEN /\ result' = Outcome("buildIndex", bld.max, "StateError", "")
            /\ UNCHANGED << is_open, is_indexed, stream, gen, line_divisor, lastScan >>
       ELSE /\ stream' = NewStream
            /\ gen' = Detached(gen)
            /\ line_divisor' = DivisorAfterOpen(line_divisor, file)
            /\ is_indexed' = TRUE
            /\ lastScan' = [done |-> TRUE, max |-> bld.max,
                            clean |-> bld.fresh /\ bld.live,
                            quiet |-> TRUE]
            /\ result' = Outcome("buildIndex", bld.max, "ok", "")
            /\ UNCHANGED is_open
    /\ UNCHANGED << file, is_iterator_active, header, lines, columns, size, index_pool,
                    reading_handle, ncalls, pass, prevPass >>

\* ------------------------------------------------------------------ iterator
\* The `this` the generator calls scopeLineObjectBuilder with: the method was
\* read off the engine into a variable and is called as a plain function.
IteratorBuilderSelf == Unbound

\* iterator() making a new generator on every call.
ReusesIteratorNever == FALSE

\* Whether iterator() hands out the generator it already has.
ReusesIterator == is_iterator_active

\* iterator()
Iterator ==
    /\ IF ~is_open
       THEN /\ result' = Outcome("iterator", "", "StateError", "")
            /\ UNCHANGED << is_iterator_active, gen, pass >>
       ELSE /\ IF ReusesIterator
               THEN UNCHANGED << is_iterator_active, gen >>
               ELSE /\ gen' = [exists |-> TRUE, live |-> TRUE, index |-> 0,
                               header |-> header, state |-> "suspendedStart"]
                    /\ is_iterator_active' = TRUE
            /\ pass' = [pass EXCEPT
                          !.iter = TRUE,
                          !.created = @ \/ ~ReusesIterator,
                          !.fresh = IF pass.iter THEN @
                                    ELSE stream.pos = 0 /\ ~stream.ended /\ ~bld.active]
            \* the object returned: #iterator_object as it was, or the new one
            /\ result' = Outcome("iterator", "", "ok",
                                 IF ReusesIterator THEN "reused" ELSE "created")
    /\ UNCHANGED << file, indexState, is_open, reading_buffer, reading_handle,
                    line_divisor, stream, bld, reads, ncalls, prevPass, lastScan >>

RECURSIVE GenRun(_, _, _)
\* csvAsyncIteratorWrapper resumed with `index` and `header`, the stream at
\* line `pos`: it runs to its next yield, to its end, or to an exception.
GenRun(index, hdr, pos) ==
    IF ~(gen.live /\ ~stream.ended /\ pos < Len(FileLines))
    THEN [out |-> "done", index |-> index, header |-> hdr, pos |-> pos,
          value |-> Failure("none")]
    ELSE LET line == FileLines[pos + 1]
         IN  IF index + 1 = 1
             \* the first line is the header: kept if none is known, never yielded
             THEN GenRun(1, IF hdr.t = "none" THEN HText(line) ELSE hdr, pos + 1)
             ELSE LET r == buildLineObject(IteratorBuilderSelf, line, index + 1, hdr)
                  IN  [out |-> IF IsFailure(r) THEN "threw" ELSE "yield",
                       index |-> index + 1, header |-> hdr, pos |-> pos + 1,
                       value |-> r]

\* next() on the generator iterator() returned, awaited.
IterNext ==
    /\ gen.exists
    /\ LET run == IF gen.state = "completed"
                  THEN [out |-> "done", index |-> gen.index, header |-> gen.header,
                        pos |-> stream.pos, value |-> Failure("none")]
                  ELSE GenRun(gen.index, gen.header, stream.pos)
       IN  /\ gen' = [gen EXCEPT !.index = run.index, !.header = run.header,
                                 !.state = IF run.out = "yield" THEN "suspendedYield"
                                           ELSE "completed"]
           \* leaving the loop by its end or by the exception returns the stream's iterator
           /\ stream' = IF gen.live /\ gen.state # "completed"
                        THEN [stream EXCEPT !.pos = run.pos,
                                            !.ended = @ \/ run.out # "yield"]
                        ELSE stream
           /\ pass' = [pass EXCEPT
                         !.yielded = IF run.out = "yield" THEN Append(@, run.value) ELSE @,
                         !.ending = IF run.out = "yield" \/ @ # "none" THEN @ ELSE run.out,
                         !.whole = IF run.out = "yield" \/ pass.ending # "none" THEN @
                                   ELSE gen.live /\ ~bld.active]
           /\ result' = CASE run.out = "yield" -> Outcome("next", "", "ok", run.value)
                          [] run.out = "done" -> Outcome("next", "", "done", "")
                          [] OTHER -> Outcome("next", "", run.value.failed, "")
    \* a scan that shares the stream is no longer its only reader
    /\ bld' = [bld EXCEPT !.fresh = FALSE]
    /\ UNCHANGED << file, indexState, is_open, is_iterator_active, reading_buffer,
                    reading_handle, line_divisor, reads, ncalls, prevPass, lastScan >>

\* ------------------------------------------------------------------ getLine
\* The row numbers getLine is called with.
RowArgs == 0..MaxRowArg

\* Where #index_pool[index] of the code is in index_pool: the pool is filled by
\* push, so its JS index 0 is the first entry, [1].
PoolAt(index) == index + 1

\* getLine without its check of #is_indexed.
GetLineRefusedOnEmptyPool == ~is_open \/ Len(index_pool) = 0

\* Whether getLine refuses for the engine's state (not open, or not indexed).
GetLineStateRefused == ~is_open \/ ~is_indexed \/ Len(index_pool) = 0

\* getLine's checks before the read: the kind of error thrown, or "ok".
GetLineCheck(index) ==
    IF GetLineStateRefused THEN "StateError"
    ELSE IF index = 0 \/ index > lines \/ index <= 0 THEN "RangeError"
    \* this.#index_pool[index][1] on an index the pool does not have
    ELSE IF PoolAt(index) > Len(index_pool) THEN "TypeError"
    ELSE IF index_pool[PoolAt(index)][2] = 0 THEN "RangeError"
    ELSE "ok"

\* fs.read's check of its arguments (offset 0): it throws for an empty buffer
\* and for a length the buffer cannot take.
ReadArgsRefused(bufferLength, length) ==
    length # 0 /\ (bufferLength = 0 \/ length > bufferLength)

\* getLine(index), up to the positioned read it issues.
GetLineCall(index) ==
    /\ LET check == GetLineCheck(index)
           entry == index_pool[PoolAt(index)]
           \* this.#reading_buffer || Buffer.alloc(length)
           buffer == IF reading_buffer.alloc THEN reading_buffer ELSE BufferAlloc(entry[2])
       IN  IF check # "ok"
           THEN /\ result' = Outcome("getLine", index, check, "")
                /\ UNCHANGED reads
           ELSE IF ReadArgsRefused(Len(buffer.bytes), entry[2])
           THEN /\ result' = Outcome("getLine", index, "ReadArgError", "")
                /\ UNCHANGED reads
           ELSE /\ reads' = Append(reads, [row |-> index, offset |-> entry[1],
                                           length |-> entry[2], phase |-> "issued",
                                           shared |-> reading_buffer.alloc,
                                           buf |-> IF reading_buffer.alloc THEN <<>>
                                                   ELSE buffer.bytes])
                /\ result' = Outcome("getLine", index, "pending", "")
    /\ UNCHANGED << file, indexState, is_open, is_iterator_active, reading_buffer,
                    reading_handle, line_divisor, stream, gen, bld, ncalls, pass,
                    prevPass, lastScan >>

\* The bytes a positioned read of `length` bytes at `offset` gets from the file.
FileBytesAt(offset, length) ==
    SubSeq(file, offset + 1, IF offset + length < Len(file) THEN offset + length ELSE Len(file))

\* `bytes` with `data` written at its start.
Overwrite(bytes, data) ==
    [i \in 1..Len(bytes) |-> IF i <= Len(data) THEN data[i] ELSE bytes[i]]

\* The bytes read k would have in a Buffer of its own.
BufferOfOwnRead(k) ==
    Overwrite([i \in 1..Len(reading_buffer.bytes) |-> NUL],
              FileBytesAt(reads[k].offset, reads[k].length))

\* The bytes of the Buffer read k works on.
BufferOf(k) == IF reads[k].shared THEN reading_buffer.bytes ELSE reads[k].buf

\* A read that takes the row from the line stream, leaving the stream after it.
ReadFillThroughStream(k) ==
    /\ k \in DOMAIN reads
    /\ reads[k].phase = "issued"
    /\ reading_handle # "null"
    /\ stream' = [stream EXCEPT !.pos = reads[k].row + 1]
    /\ LET filled == Overwrite(BufferOf(k), FileBytesAt(reads[k].offset, reads[k].length))
       IN  IF reads[k].shared
           THEN /\ reading_buffer' = [reading_buffer EXCEPT !.bytes = filled]
                /\ reads' = [reads EXCEPT ![k].phase = "filled"]
           ELSE /\ reads' = [reads EXCEPT ![k].phase = "filled", ![k].buf = filled]
                /\ UNCHANGED reading_buffer
    /\ UNCHANGED << file, indexState, is_open, is_iterator_active, reading_handle,
                    line_divisor, gen, bld, result, ncalls, pass, prevPass, lastScan >>

\* The positioned read of call k is carried out: it fills the Buffer, or fails
\* when the handle has been closed.
ReadFill(k) ==
    /\ k \in DOMAIN reads
    /\ reads[k].phase = "issued"
    /\ IF reading_handle = "null"
       THEN /\ reads' = [reads EXCEPT ![k].phase = "failed"]
            /\ UNCHANGED reading_buffer
       ELSE LET filled == Overwrite(BufferOf(k), FileBytesAt(reads[k].offset, reads[k].length))
            IN  IF reads[k].shared
                THEN /\ reading_buffer' = [reading_buffer EXCEPT !.bytes = filled]
                     /\ reads' = [reads EXCEPT ![k].phase = "filled"]
                ELSE /\ reads' = [reads EXCEPT ![k].phase = "filled", ![k].buf = filled]
                     /\ UNCHANGED reading_buffer
    /\ UNCHANGED << file, indexState, is_open, is_iterator_active, reading_handle,
                    line_divisor, stream, gen, bld, result, ncalls, pass, prevPass,
                    lastScan >>

\* buffer.slice(0, length).toString('utf-8').trim()
DecodeRead(bytes, length) ==
    Trim(SubSeq(bytes, 1, IF length < Len(bytes) THEN length ELSE Len(bytes)))

\* `s` without its k-th element.
RemoveAt(s, k) == SubSeq(s, 1, k - 1) \o SubSeq(s, k + 1, Len(s))

\* fs.read's callback for call k, and the rest of getLine.
ReadCallback(k) ==
    /\ k \in DOMAIN reads
    /\ reads[k].phase \in { "filled", "failed" }
    /\ LET line == DecodeRead(BufferOf(k), reads[k].length)
           decoded == buildLineObject(Bound(header), line, reads[k].row, NoHeader)
       IN  result' =
             IF reads[k].phase = "failed"
             \* reject({ error, result: null }): the await throws that object
             THEN Outcome("getLine", reads[k].row, "RawReadRejection", "")
             ELSE IF IsFailure(decoded)
             THEN Outcome("getLine", reads[k].row, decoded.failed, "")
             ELSE Outcome("getLine", reads[k].row, "ok", decoded)
    /\ reads' = RemoveAt(reads, k)
    /\ UNCHANGED << file, indexState, is_open, is_iterator_active, reading_buffer,
                    reading_handle, line_divisor, stream, gen, bld, ncalls, pass,
                    prevPass, lastScan >>

\* ------------------------------------------------------------------ specification
\* Calls are made in any order, also while a buildIndex is pending; getLine is
\* called only when no getLine is pending.
Next ==
    \/ Open
    \/ \E preserveFileHandle \in BOOLEAN : Close(preserveFileHandle)
    \/ Rewind
    \/ Get
    \/ \E max \in MaxOptions : BuildIndexCall(max)
    \/ BuildIndexStep
    \/ BuildIndexFinish
    \/ Iterator
    \/ IterNext
    \/ \E index \in RowArgs : reads = <<>> /\ GetLineCall(index)
    \/ \E k \in DOMAIN reads : ReadFill(k)
    \/ \E k \in DOMAIN reads : ReadCallback(k)

Spec == Init /\ [][Next]_vars

\* ------------------------------------------------------------------ CR LF files
\* The engine on a file whose lines end in carriage return + newline.
InitCRLF == InitOn(FilesWith(<<CR, LF>>, TRUE))

SpecCRLF == InitCRLF /\ [][Next]_vars

\* ------------------------------------------------------------------ longer sessions
\* The file of MaxLines lines whose first row is the long one: the rows
\* after it fit the Buffer, so getLine can succeed on it.
SessionFiles ==
    { JoinLines([i \in 1..MaxLines |-> IF i = 2 THEN <<"a", COMMA, "b">> ELSE <<"a">>],
                <<LF>>, TRUE) }

InitSession == InitWith(SessionFiles, MaxSessionCalls)

SpecSession == InitSession /\ [][Next]_vars

\* ------------------------------------------------------------------ overlapping getLine calls
\* Rows short enough for the Buffer of a file that has a longer row.
ShortTexts == << <<"a">>, <<"b">> >>

\* The file of a header, a long row and MaxPending short rows, of alternating
\* texts so that rows next to each other differ.
OverlapFiles ==
    { JoinLines(<< <<"a">>, <<"a", COMMA, "b">> >>
                    \o [i \in 1..MaxPending |-> ShortTexts[2 - (i % 2)]],
                <<LF>>, TRUE) }

InitOverlap == InitOn(OverlapFiles)

\* A client that indexes the file and reads rows by number, without iterating:
\* getLine is called also while getLine calls are pending, since nothing in the
\* engine holds the call back.
NextOverlap ==
    \/ Open
    \/ \E preserveFileHandle \in BOOLEAN : Close(preserveFileHandle)
    \/ Rewind
    \/ Get
    \/ \E max \in MaxOptions : BuildIndexCall(max)
    \/ BuildIndexStep
    \/ BuildIndexFinish
    \/ \E index \in RowArgs : Len(reads) < MaxPending /\ GetLineCall(index)
    \/ \E k \in DOMAIN reads : ReadFill(k)
    \/ \E k \in DOMAIN reads : ReadCallback(k)

SpecOverlap == InitOverlap /\ [][NextOverlap]_vars

\* ------------------------------------------------------------------ a last row without a divisor
\* The file of MaxLines + 1 lines whose first row is the long one and whose last
\* line has no divisor after it: the read of the last row gets fewer bytes than
\* its Index Table entry asks for.
ShortReadFiles ==
    { JoinLines([i \in 1..(MaxLines + 1) |-> IF i = 2 THEN <<"a", COMMA, "b">> ELSE <<"a">>],
                <<LF>>, FALSE) }

InitShortRead == InitOn(ShortReadFiles)

SpecShortRead == InitShortRead /\ [][Next]_vars

\* ------------------------------------------------------------------ the row decoder alone
\* Header names and cells the decoder is applied to: empty ones too.
NameTexts == { <<>>, <<"a">>, <<"b">> }
CellTexts == { <<>>, <<"1">>, <<"2">> }

\* Files of two lines: a header of at most MaxNames names and one row of at
\* most MaxCells cells.
DecoderFiles ==
    { JoinLines(<< JoinLines(names, <<COMMA>>, FALSE), JoinLines(cells, <<COMMA>>, FALSE) >>,
                <<LF>>, TRUE) :
        names \in SeqsUpTo(NameTexts, MaxNames) \ { <<>> },
        cells \in SeqsUpTo(CellTexts, MaxCells) \ { <<>> } }

InitDecoder == InitOn(DecoderFiles)

\* #buildLineObject(line, 1, { header }) on the file's row, with the file's
\* first line as the header option (a string, which the decoder splits).
Decode ==
    /\ LET decoded == buildLineObject(Bound(header), FileLines[2], 1, HText(FileLines[1]))
       IN  result' = IF IsFailure(decoded)
                     THEN Outcome("decode", 1, decoded.failed, "")
                     ELSE Outcome("decode", 1, "ok", decoded)
    /\ UNCHANGED << file, indexState, is_open, is_iterator_active, reading_buffer,
                    reading_handle, line_divisor, stream, gen, bld, reads, ncalls, pass,
                    prevPass, lastScan >>

NextDecoder == Decode

SpecDecoder == InitDecoder /\ [][NextDecoder]_vars

\* ------------------------------------------------------------------ the file, as the claims read it
\* The data rows of the file: its lines after the header line.
DataRows == IF FileLines = <<>> THEN <<>> ELSE Tail(FileLines)
NumDataRows == Len(DataRows)
\* The names in the header line.
HeaderNames == splitCSVLine(Head(FileLines))

RECURSIVE LineStartsFrom(_, _, _)
\* The byte offsets at which the lines of the file start, from byte i on, the
\* current line starting at `start`.
LineStartsFrom(i, start, acc) ==
    IF i > Len(file) THEN (IF start < Len(file) THEN Append(acc, start) ELSE acc)
    ELSE IF file[i] = LF THEN LineStartsFrom(i + 1, i, Append(acc, start))
    ELSE IF file[i] = CR
         THEN IF i < Len(file) /\ file[i + 1] = LF
              THEN LineStartsFrom(i + 2, i + 1, Append(acc, start))
              ELSE LineStartsFrom(i + 1, i, Append(acc, start))
    ELSE LineStartsFrom(i + 1, start, acc)

\* The byte offset of the first byte of data row k (1-based).
RowOffset(k) == LineStartsFrom(1, 0, <<>>)[k + 1]

\* The Row Record of data row k: the decoder on the row's text, the header's
\* names and the row number k.
RowRecord(k) == buildLineObject(Bound(HNames(HeaderNames)), DataRows[k], k, NoHeader)

\* A buildIndex without max has completed: it scanned alone, from the start of
\* the file, into an empty Index Table.
FullyIndexed == lastScan.done /\ lastScan.clean /\ lastScan.max = -1

\* A getLine call has come to its outcome, and since the latest buildIndex
\* completed the engine was not opened, closed, rewound or indexed again.
GetLineAfterScan ==
    /\ lastScan.done /\ lastScan.quiet
    /\ result.op = "getLine" /\ result.kind # "pending"

\* ------------------------------------------------------------------ claims
\* C1: cross-path consistency. After a completed full buildIndex and a full
\* iterator() pass over the file, a Row Record that getLine(i) returns is the
\* i-th record the pass produced.
C1_CrossPathConsistency ==
    (FullyIndexed /\ PassOver(pass) /\ GetLineAfterScan /\ result.kind = "ok")
        => /\ result.arg <= Len(pass.yielded)
           /\ pass.yielded[result.arg] = result.value

\* C2: after a full buildIndex, getLine(i) succeeds for every i from 1 to the
\* number of data rows and returns the record of the i-th data row: index i,
\* the row's text; the Index Table entry it uses holds the row's offset and its
\* length with the line divisor.
C2_GetLineReturnsRow ==
    (FullyIndexed /\ GetLineAfterScan /\ result.arg \in 1..NumDataRows)
        => /\ result.kind = "ok"
           /\ result.value.index = result.arg
           /\ result.value.line = DataRows[result.arg]
           /\ PoolAt(result.arg) <= Len(index_pool)
           /\ index_pool[PoolAt(result.arg)] =
                << RowOffset(result.arg), Len(DataRows[result.arg]) + Len(line_divisor) >>

\* C3: after a full buildIndex of a file with a header line and n data rows,
\* the lines accessor gives n (the header is not counted) and the columns
\* accessor gives the number of names in the header.
C3_LinesAndColumns ==
    (FullyIndexed /\ lastScan.quiet /\ FileLines # <<>> /\ result.op = "get")
        => /\ result.value["lines"] = [kind |-> "ok", value |-> NumDataRows]
           /\ result.value["columns"] = [kind |-> "ok", value |-> Len(HeaderNames)]

\* C4: consuming iterator() to the end, from the start of the file, yields
\* exactly the data rows in file order and then ends; the k-th record yielded
\* is the record of the k-th data row, with index k; the header is not yielded.
C4_IteratorYieldsDataRows ==
    PassOver(pass)
        => /\ pass.ending = "done"
           /\ Len(pass.yielded) = NumDataRows
           /\ \A k \in 1..Len(pass.yielded) :
                /\ pass.yielded[k].index = k
                /\ pass.yielded[k].line = DataRows[k]
                /\ pass.yielded[k] = RowRecord(k)

\* C5: on an open, indexed engine getLine(r) fails with the out-of-range error
\* for every r outside [1, lines] and every r without an Index Table entry;
\* never with the not-indexed error or a type error.
C5_OutOfRangeIsRangeError ==
    (GetLineAfterScan /\ is_open /\ is_indexed
       /\ (result.arg \notin 1..lines \/ PoolAt(result.arg) > Len(index_pool)))
        => result.kind = "RangeError"

\* C6: buildIndex({max: k}) with 0 <= k < totalRows ends with lines = k and
\* exactly k data rows indexed, and a following getLine(k + 1) fails with the
\* out-of-range error.
C6_MaxStopsAfterKRows ==
    (lastScan.done /\ lastScan.clean /\ lastScan.max >= 0 /\ lastScan.max < NumDataRows
       /\ lastScan.quiet)
        => /\ lines = lastScan.max /\ Len(index_pool) = lastScan.max
           /\ (GetLineAfterScan /\ result.arg = lastScan.max + 1)
                => result.kind = "RangeError"

\* C7: open() on an open engine fails with StateError and close() on an engine
\* that is not open fails with StateError, in every reachable state; the engine
\* goes from open to closed only by a close() that succeeds and from closed to
\* open only by an open() that succeeds, so a second open() (close()) without a
\* close() (open()) in between fails, also after rewind() and buildIndex().
C7_DoubleOpenCloseRefused ==
    [][ /\ (Open /\ is_open) => (result'.kind = "StateError" /\ is_open')
        /\ ((\E preserveFileHandle \in BOOLEAN : Close(preserveFileHandle)) /\ ~is_open)
              => (result'.kind = "StateError" /\ ~is_open')
        /\ (is_open /\ ~is_open') => (result'.op = "close" /\ result'.kind = "ok")
        /\ (~is_open /\ is_open') => (result'.op = "open" /\ result'.kind = "ok")
      ]_vars

\* C7 witness: after a completed buildIndex, an open() has been refused.
C7_Witness ==
    lastScan.done /\ result.op = "open" /\ result.kind = "StateError" /\ is_open

\* C8: rewind(), buildIndex(), iterator() and getLine() fail with StateError
\* whenever the engine is not open, and getLine() fails with StateError on an
\* open engine on which no buildIndex has completed.
C8_ClosedOrUnindexedRefused ==
    [][ /\ (~is_open /\ (\/ Rewind
                          \/ \E max \in MaxOptions : BuildIndexCall(max)
                          \/ Iterator
                          \/ \E index \in RowArgs : GetLineCall(index)))
              => (result'.kind = "StateError" /\ UNCHANGED << indexState, stream, gen >>)
        /\ (is_open /\ ~lastScan.done /\ \E index \in RowArgs : GetLineCall(index))
              => result'.kind = "StateError"
      ]_vars

\* C8 witness: getLine was refused on an open engine in the middle of its
\* first scan, rows already in the Index Table.
C8_Witness ==
    /\ result.op = "getLine" /\ result.kind = "StateError"
    /\ is_open /\ ~lastScan.done /\ bld.active /\ index_pool # <<>>

\* C9: while no buildIndex has completed, also during a scan, reading header,
\* lines, columns or size fails with StateError; filename, isOpen and isIndexed
\* never fail.
C9_AccessorsGated ==
    result.op = "get"
        => \A name \in Accessors :
             IF name \in IndexedAccessors
             THEN ~lastScan.done => result.value[name].kind = "StateError"
             ELSE result.value[name].kind = "ok"

\* C9 witness: the header accessor was refused during a scan that has already
\* read the header line.
C9_Witness ==
    /\ result.op = "get" /\ result.value["header"].kind = "StateError"
    /\ bld.active /\ header # NoHeader /\ ~lastScan.done

\* C10: after an iterator() pass over the file, rewind() and a second
\* iterator(), consumed, reproduce the pass: the same records in the same
\* order, ending the same way.
C10_RewindReproducesPass ==
    (PassOver(prevPass) /\ pass.iter /\ pass.fresh /\ pass.ending # "none")
        => /\ pass.yielded = prevPass.yielded
           /\ pass.ending = prevPass.ending

\* C11: iterator() called while the generator of an earlier call is still in
\* progress returns that same generator and starts no new pass: the generator,
\* its position and the stream are as they were.
C11_SingleIteratorSession ==
    [][ (Iterator /\ is_open /\ gen.exists /\ gen.state # "completed")
          => /\ result'.kind = "ok" /\ result'.value = "reused"
             /\ UNCHANGED << gen, stream, is_iterator_active >>
      ]_vars

\* C11 witness: a second iterator() call has returned the generator of the
\* first, not yet started, on a stream that a scan has already moved.
C11_Witness ==
    /\ result.op = "iterator" /\ result.value = "reused"
    /\ gen.state = "suspendedStart" /\ gen.live /\ stream.pos > 0

\* C12: getLine calls are not serialized. A call made while reads are pending
\* issues its read at once, on the engine's one Buffer; and what a call
\* returns is decoded from what that Buffer holds when its read completes,
\* whichever call's read wrote it.
C12_OverlappedReadsShareBuffer ==
    [][ /\ \A index \in RowArgs :
              (GetLineCall(index) /\ reads # <<>> /\ result'.kind = "pending")
                => /\ Len(reads') = Len(reads) + 1
                   /\ reads'[Len(reads')].shared = reading_buffer.alloc
        /\ \A k \in DOMAIN reads :
              (ReadCallback(k) /\ reads[k].phase = "filled" /\ reads[k].shared
                 /\ result'.kind = "ok")
                => result'.value.line = DecodeRead(reading_buffer.bytes, reads[k].length)
      ]_vars

\* C12 witness: a getLine call has returned a record whose text is not the
\* text at its own Index Table entry: it was decoded from the bytes read for
\* the other outstanding call.
C12_Witness ==
    /\ result.op = "getLine" /\ result.kind = "ok"
    /\ LET entry == index_pool[PoolAt(result.arg)]
       IN  result.value.line # DecodeRead(FileBytesAt(entry[1], entry[2]), entry[2])

\* What a call finds of the engine: whether it is open and indexed, the index,
\* the held stream and the read handle.
EngineState == << is_open, indexState, stream, reading_handle >>

\* A call of the engine comes to its outcome in this step, and fails.
CallFails ==
    /\ \/ Open
       \/ \E preserveFileHandle \in BOOLEAN : Close(preserveFileHandle)
       \/ Rewind
       \/ \E max \in MaxOptions : BuildIndexCall(max)
       \/ Iterator
       \/ \E index \in RowArgs : GetLineCall(index)
       \/ \E k \in DOMAIN reads : ReadCallback(k)
    /\ result'.kind \notin { "ok", "pending" }

\* C13: every failing call leaves the engine as it was before the call; a
\* buildIndex that fails leaves the indexed state (isIndexed, header, lines,
\* columns, size, Index Table) that it found when it was called.
C13_FailingCallsLeaveState ==
    [][ /\ CallFails => UNCHANGED EngineState
        /\ (BuildIndexFinish /\ result'.kind # "ok") => indexState' = bld.before
      ]_vars

\* The line divisor of the file: CR LF when the leading chunk holds one.
FileDivisor == IF IncludesCRLF(file) THEN <<CR, LF>> ELSE <<LF>>

\* C14: once the engine has been opened its line divisor is the one of the
\* file (CR LF for a file whose lines end in CR LF); and after a full
\* buildIndex every Index Table entry holds the true byte offset of its row
\* and the row's length plus the length of that divisor.
C14_DivisorDetected ==
    /\ is_open => line_divisor = FileDivisor
    /\ (FullyIndexed /\ lastScan.quiet)
         => \A k \in 1..Len(index_pool) :
              /\ k <= NumDataRows
              /\ index_pool[k] = << RowOffset(k), Len(DataRows[k]) + Len(FileDivisor) >>

\* ------------------------------------------------------------------ the decoder's inputs, as the claims read them
\* The header H and the cells c of a decoder call, and c[i] as a value (i from 1).
DecodedHeader == splitCSVLine(FileLines[1])
DecodedCells == splitCSVLine(FileLines[2])
CellValue(i) == IF DecodedCells[i] = <<>> THEN Null ELSE Str(DecodedCells[i])
DistinctNames(H) == \A i, j \in 1..Len(H) : i # j => H[i] # H[j]
FieldIs(r, name, value) == name \in DOMAIN r.fields /\ r.fields[name] = value

\* C15: for a header H of distinct names and cells c, when |c| > |H| the record
\* has hasExcessCells, fields[H[i]] = c[i] for every position of H and the
\* unnamed bucket is the rest of c in order; otherwise hasExcessCells is false and
\* fields[H[i]] is c[i] where c has a cell and null beyond c; an empty cell is null.
C15_DecoderDistinctNames ==
    (result.op = "decode" /\ DistinctNames(DecodedHeader)) =>
        /\ result.kind = "ok"
        /\ LET H == DecodedHeader
               c == DecodedCells
               r == result.value
           IN  IF Len(c) > Len(H)
               THEN /\ r.hasExcessCells
                    /\ \A i \in 1..Len(H) : FieldIs(r, H[i], CellValue(i))
                    /\ r.unnamed = [k \in 1..(Len(c) - Len(H)) |-> CellValue(Len(H) + k)]
               ELSE /\ ~r.hasExcessCells
                    /\ \A i \in 1..Len(H) :
                         FieldIs(r, H[i], IF i <= Len(c) THEN CellValue(i) ELSE Null)

\* The values the cells give to `name`, in the order of the header's positions.
RECURSIVE ValuesOf(_, _)
ValuesOf(name, i) ==
    IF i = 0 THEN <<>>
    ELSE LET before == ValuesOf(name, i - 1)
         IN  IF DecodedHeader[i] # name THEN before
             ELSE Append(before, IF i <= Len(DecodedCells) THEN CellValue(i) ELSE Null)

\* C16: a header name that occurs more than once decodes to the sequence of all
\* the values assigned to it, in order, null ones included.
C16_DuplicateNamesAccumulate ==
    (result.op = "decode" /\ result.kind = "ok") =>
        \A i, j \in 1..Len(DecodedHeader) :
            (i < j /\ DecodedHeader[i] = DecodedHeader[j]) =>
                FieldIs(result.value, DecodedHeader[i],
                        Arr(ValuesOf(DecodedHeader[i], Len(DecodedHeader))))

\* C17: when the positioned read of a getLine call fails, the call fails with the
\* error getLine throws itself ("ReadError": engine name, getLine, file name and
\* row number added to the read's message), not with the read's rejection value.
C17_ReadFailureRethrown ==
    [][ \A k \in DOMAIN reads :
          (ReadCallback(k) /\ reads[k].phase = "failed")
              => result'.op = "getLine" /\ result'.kind = "ReadError" ]_vars

\* C18: once a buildIndex has completed, whatever calls follow, the Index Table
\* has exactly `lines` entries and its offsets are strictly increasing (so a
\* second buildIndex adds no duplicates and keeps the table and `lines` agreeing).
C18_IndexTableMatchesLines ==
    (lastScan.done /\ ~bld.active) =>
        /\ Len(index_pool) = lines
        /\ \A k \in 1..(Len(index_pool) - 1) : index_pool[k][1] < index_pool[k + 1][1]

\* C19: after buildIndex the read Buffer holds every Index Table entry's length
\* (row plus divisor), so no getLine on an indexed row fails for lack of room.
C19_BufferFitsEveryEntry ==
    /\ (lastScan.done /\ ~bld.active) =>
           \A k \in 1..Len(index_pool) : index_pool[k][2] <= Len(reading_buffer.bytes)
    /\ result.op = "getLine" => result.kind # "ReadArgError"

\* The record of the Index Table entry getLine(row) reads, decoded from the
\* file's bytes with the engine's header.
EntryRecord(row) ==
    LET entry == index_pool[PoolAt(row)]
    IN  buildLineObject(Bound(header), DecodeRead(FileBytesAt(entry[1], entry[2]), entry[2]),
                        row, NoHeader)

\* A step of open, close, rewind, iterator (and its next) or getLine (and its read).
NonIndexingCall ==
    \/ Open
    \/ \E preserveFileHandle \in BOOLEAN : Close(preserveFileHandle)
    \/ Rewind
    \/ Iterator
    \/ IterNext
    \/ \E index \in RowArgs : GetLineCall(index)
    \/ \E k \in DOMAIN reads : ReadFill(k)
    \/ \E k \in DOMAIN reads : ReadCallback(k)

GetLineStep ==
    \/ \E index \in RowArgs : GetLineCall(index)
    \/ \E k \in DOMAIN reads : ReadFill(k)
    \/ \E k \in DOMAIN reads : ReadCallback(k)

\* C21: no step of getLine touches the line stream or the iterator session: the
\* stream's position, the generator, #is_iterator_active and what the pass has
\* yielded stay as they are (next() reads nothing else but the file and these).
C21_GetLineLeavesStream ==
    [][ GetLineStep => UNCHANGED << stream, gen, is_iterator_active, pass >> ]_vars

\* getLine returned a record while an iterator pass was under way: the
\* generator exists, a next() has moved the stream, and the pass is not rewound.
C21_Witness ==
    /\ result.op = "getLine" /\ result.kind = "ok"
    /\ gen.exists /\ gen.live /\ is_iterator_active
    /\ pass.iter /\ pass.ending # "none"
    /\ stream.pos > 0

\* The record getLine(row) returns when it is the first getLine after
\* buildIndex: the read works on the Buffer as Buffer.alloc left it.
FirstReadRecord(row) ==
    LET entry == index_pool[PoolAt(row)]
        fresh == BufferAlloc(Len(reading_buffer.bytes)).bytes
        bytes == Overwrite(fresh, FileBytesAt(entry[1], entry[2]))
    IN  buildLineObject(Bound(header), DecodeRead(bytes, entry[2]), row, NoHeader)

\* C22: with getLine calls made one at a time after a full buildIndex, the
\* record getLine(r) returns is the one a run without earlier getLine calls
\* returns for r: the file and r alone determine it, also on a short read.
C22_RecordDeterminedByFileAndRow ==
    (FullyIndexed /\ GetLineAfterScan /\ result.kind = "ok")
        => result.value = FirstReadRecord(result.arg)

====
